---- MODULE Spec2Model ----
(***************************************************************************)
(* docdl: ingestion pipeline (run.py main), the document store             *)
(* (store.py), and the rate-limited fetch layer (http.py) as used by the   *)
(* discover, resolve and download stages.                                  *)
(*                                                                         *)
(* Four specifications share this module:                                  *)
(*   Spec      one or more executions of run.main against one store;       *)
(*   SpecDup   one execution of run.main whose IEA listing can hold the    *)
(*             same report link more than once;                            *)
(*   SpecHttp  a sequence of stage calls, each building its RateLimiter    *)
(*             and calling fetch, against one clock;                       *)
(*   SpecRL    wait calls on one RateLimiter instance.                     *)
(* Time is counted in ticks of one second.  Texts (error messages,         *)
(* extracted text) are records [kind, len]: kind tells texts apart, len is *)
(* the number of characters.                                               *)
(***************************************************************************)
EXTENDS Integers, Sequences, FiniteSets, TLC

\* ------------------------------------------------------------------ bounds
MaxRuns == 2
MaxIea == 1
MaxRunsDup == 1
MaxIeaDup == 2
MaxRetries == 2
MaxStages == 2
MaxWaits == 4

\* ------------------------------------------------------- program constants
ErrLimit == 4000

\* ----------------------------------------------------------------- helpers
Min(a, b) == IF a < b THEN a ELSE b

Max(a, b) == IF a > b THEN a ELSE b

\* A text of the given kind and length; the empty string has no kind.
Text(kind, len) == IF len = 0 THEN [kind |-> "", len |-> 0] ELSE [kind |-> kind, len |-> len]

\* None where a text is expected
NoText == [kind |-> "None", len |-> 0]

\* Python truthiness of an optional string: None and "" are falsy
Truthy(t) == t.len > 0

\* error[:4000]
Truncate(t) == [t EXCEPT !.len = Min(t.len, ErrLimit)]

\* Lengths of the messages an exception of a call may carry: a resolver's
\* message holds the page URL and may be long, an extraction may end in an
\* exception without a message (MemoryError)
ErrLens(kind) ==
  CASE kind = "resolve" -> {40, ErrLimit + 1}
    [] kind = "extract" -> {0, 40}
    [] OTHER -> {40}

\* str(e) of the exceptions a call of the given kind may raise
ErrorsOf(kind) == {Text(kind, n) : n \in ErrLens(kind)}

\* ------------------------------------------------------------ the sources
ImfDocs == {"imf1"}

IeaDocs == {"iea1"}

DocUrls == ImfDocs \cup IeaDocs

SourceOf(doc) == IF doc \in ImfDocs THEN "imf_reo_meca" ELSE "iea_gas_reports"

DiscoveredItem(doc) == [source_id |-> SourceOf(doc), doc_url |-> doc]

\* extracted texts a document may have in a run
Texts == {Text("bodyA", 15), Text("bodyB", 16)}

\* util.sha256_text: a digest that depends on the text only
sha256_text(t) == <<"sha256", t.kind, t.len>>

NoHash == <<"None", "", 0>>

PdfUrlOf(doc) == <<"pdf", doc>>

NoUrl == <<"None", "">>

\* ------------------------------------------------------------ http layer
\* rps_per_domain is counted in hundredths of a request per second
RpsFloor == 10

\* 1.0 / max(self.rps, 0.1), in ticks
MinInterval(rps) == 100 \div Max(rps, RpsFloor)

\* self._last_by_domain.get(domain, 0.0)
DefaultLast == 0

\* time.time() when the model starts: later than any interval after the epoch
StartTime == 2 * (100 \div RpsFloor)

\* RateLimiter.__init__: no timestamps
NoTimestamps == [d \in {} |-> 0]

\* the pages the stages fetch; urlparse(url).netloc is the domain
Urls == {[netloc |-> "www.iea.org", path |-> "/analysis"],
         [netloc |-> "www.iea.org", path |-> "/reports/a"],
         [netloc |-> "www.imf.org", path |-> "/reo/meca"]}

Domains == {u.netloc : u \in Urls}

NoRequest == [netloc |-> "", path |-> ""]

\* cfg.backoff_statuses
BackoffStatuses == {429, 503}

\* the statuses a server answers with
Statuses == {200, 404, 503}

NoCause == <<"None">>

NoResult == [kind |-> "none"]

VARIABLES
  ingest_items,      \* store: set of ingest_items rows
  regulations,       \* store: set of regulations rows
  ingest_runs,       \* store: set of ingest_runs rows
  pc,                \* position of main
  run_no,            \* executions of main started so far
  run_id,            \* main: run_id, the second main started in
  discovered_items,  \* main: the list built by discovery
  idx,               \* main: index of the item the loop is at
  log,               \* main: log["errors"], log["counts"], log["sources"]
  success,           \* main: local counter
  failed,            \* main: local counter
  ingest_row,        \* main: result of upsert_ingest_item for the item
  text,              \* main: the item's extracted text
  content_hash,      \* main: hash of the item's extracted text
  exc,               \* main: str(e) of the exception being handled
  calls,             \* history: collaborator and store calls made for the item
  started,           \* history: indexes of the items the loop started
  dedupe_hit,        \* history: items of this run whose hash equalled the regulation's
  before,            \* history: the counters when the loop took the current item
  unsettled,         \* history: doc_urls of this run whose "failed" patch raised
  now,               \* http: time.time(), in ticks
  cfg,               \* http: HttpConfig (max_retries, rps_per_domain in hundredths)
  rl,                \* http: RateLimiter._last_by_domain of the current instance
  hpc,               \* http: position of the stage calling fetch
  url,               \* http: fetch argument
  attempt,           \* http: fetch loop variable
  last_exc,          \* http: fetch local
  result,            \* http: what the last fetch returned or raised
  stages,            \* history: stage calls (discover, resolve, download) so far
  events,            \* history: waits, GETs and backoff sleeps of the current fetch
  gets,              \* history: GET requests of all stages, [domain, at]
  waits              \* history: RateLimiter.wait calls, [domain, called, sleep_s, ret]

storeVars == <<ingest_items, regulations, ingest_runs>>

runVars == <<pc, run_no, run_id, discovered_items, idx, log, success, failed, ingest_row,
             text, content_hash, exc, calls, started, dedupe_hit, before, unsettled>>

httpVars == <<now, cfg, rl, hpc, url, attempt, last_exc, result, stages, events, gets, waits>>

vars == <<storeVars, runVars, httpVars>>


\* ------------------------------------------------------------------ store
\* Rows of a table with the given natural key
RowsOf(table, doc) == {r \in table : r.doc_url = doc}

\* store.upsert_ingest_item: POST ingest_items?on_conflict=doc_url with
\* resolution=merge-duplicates: the payload's columns overwrite those of the
\* row with the same doc_url, the other columns are kept; without such a row
\* one is inserted with a fresh id and nulls elsewhere.
upsert_ingest_item(table, payload) ==
  IF RowsOf(table, payload.doc_url) # {}
  THEN {IF r.doc_url = payload.doc_url
        THEN [r EXCEPT !.run_id = payload.run_id, !.source_id = payload.source_id,
                       !.status = payload.status]
        ELSE r : r \in table}
  ELSE table \cup {[id |-> Cardinality(table) + 1, doc_url |-> payload.doc_url,
                    run_id |-> payload.run_id, source_id |-> payload.source_id,
                    status |-> payload.status, error |-> NoText, pdf_url |-> NoUrl,
                    content_hash |-> NoHash, raw_text_length |-> 0]}

\* The patch body set_ingest_item_status builds: status, error[:4000] when
\* error is truthy, and the extra fields
StatusPatch(status, error, extra) ==
  [status |-> status, has_error |-> Truthy(error), error |-> Truncate(error), extra |-> extra]

\* store.set_ingest_item_status: PATCH ingest_items?doc_url=eq.<doc_url>;
\* every matching row takes the patch's fields, no row is created
set_ingest_item_status(table, doc, status, error, extra) ==
  LET patch == StatusPatch(status, error, extra) IN
  {IF r.doc_url = doc
   THEN [r EXCEPT !.status = patch.status,
                  !.error = IF patch.has_error THEN patch.error ELSE @,
                  !.pdf_url = IF "pdf_url" \in DOMAIN patch.extra THEN patch.extra.pdf_url ELSE @,
                  !.content_hash = IF "content_hash" \in DOMAIN patch.extra
                                   THEN patch.extra.content_hash ELSE @,
                  !.raw_text_length = IF "raw_text_length" \in DOMAIN patch.extra
                                      THEN patch.extra.raw_text_length ELSE @]
   ELSE r : r \in table}

\* extra=None
NoExtra == [x \in {} |-> 0]

\* store.get_regulation_by_doc_url: the rows with that key (limit 1)
get_regulation_by_doc_url(table, doc) == RowsOf(table, doc)

\* variant: a plain insert, without on_conflict=doc_url
upsert_regulation_Insert(table, payload) == table \cup {payload}

\* store.upsert_regulation: POST regulations?on_conflict=doc_url, merge-duplicates
upsert_regulation(table, payload) ==
  {r \in table : r.doc_url # payload.doc_url} \cup {payload}

\* store.upsert_ingest_run: POST ingest_runs?on_conflict=run_id, merge-duplicates
upsert_ingest_run(table, payload) ==
  IF \E r \in table : r.run_id = payload.run_id
  THEN {IF r.run_id = payload.run_id
        THEN [r EXCEPT !.success_count = payload.success_count,
                       !.fail_count = payload.fail_count, !.meta = payload.meta]
        ELSE r : r \in table}
  ELSE table \cup {[payload EXCEPT !.finished = FALSE]}

\* store.update_ingest_run: PATCH ingest_runs?run_id=eq.<run_id>
update_ingest_run(table, rid, patch) ==
  {IF r.run_id = rid
   THEN [r EXCEPT !.finished = TRUE, !.success_count = patch.success_count,
                  !.fail_count = patch.fail_count, !.meta = patch.meta]
   ELSE r : r \in table}

\* -------------------------------------------------------------- run.main
\* log["counts"] as main creates it
InitCounts == [discovered |-> 0, processed |-> 0, failed |-> 0, skipped_paywall |-> 0]

InitLog == [errors |-> <<>>, counts |-> InitCounts, sources |-> <<>>]

NoRow == [id |-> 0]

\* the counters of main at one moment
Snapshot(l, s, f) == [counts |-> l.counts, errors |-> Len(l.errors), success |-> s, failed |-> f]

item == discovered_items[idx]

\* one entry of the call history
\* (error is the argument passed, raised is str(e) of the exception it raised)
Call(op, status, error, ok, raised) ==
  [op |-> op, status |-> status, error |-> error, ok |-> ok, raised |-> raised]

itemLocalsInit ==
  /\ ingest_row = NoRow
  /\ text = NoText
  /\ content_hash = NoHash
  /\ exc = NoText
  /\ calls = <<>>

\* the fetch layer at rest
httpOff ==
  /\ now = StartTime
  /\ cfg = [max_retries |-> 0, rps |-> 100]
  /\ rl = NoTimestamps
  /\ hpc = "off"
  /\ url = NoRequest
  /\ attempt = 0
  /\ last_exc = NoCause
  /\ result = NoResult
  /\ stages = 0
  /\ events = <<>>
  /\ gets = <<>>
  /\ waits = <<>>

\* the store and main before the first execution
pipeOff ==
  /\ ingest_items = {}
  /\ regulations = {}
  /\ ingest_runs = {}
  /\ run_no = 0
  /\ run_id = 0
  /\ discovered_items = <<>>
  /\ idx = 0
  /\ log = InitLog
  /\ success = 0
  /\ failed = 0
  /\ itemLocalsInit
  /\ started = <<>>
  /\ dedupe_hit = {}
  /\ before = Snapshot(InitLog, 0, 0)
  /\ unsettled = {}

Init ==
  /\ pipeOff
  /\ pc = "idle"
  /\ httpOff

\* an exception leaves the try block of the item loop
Raise(e) == pc' = "except" /\ exc' = e

\* a store call of the item loop: it raises, or it applies the patch
\* store.set_ingest_item_status(item.doc_url, status, extra=extra); next is
\* where main goes on
PatchStep(at, status, extra, next) ==
  /\ pc = at
  /\ \/ \E e \in ErrorsOf("store") :
          /\ Raise(e)
          /\ calls' = Append(calls, Call("set_ingest_item_status", status, NoText, FALSE, e))
          /\ UNCHANGED ingest_items
     \/ /\ ingest_items' = set_ingest_item_status(ingest_items, item.doc_url, status, NoText, extra)
        /\ calls' = Append(calls, Call("set_ingest_item_status", status, NoText, TRUE, NoText))
        /\ pc' = next
        /\ UNCHANGED exc

\* run_id = f"run_{int(time.time())}": the second main starts in.  An
\* execution that discovered nothing (it ended at the run record, or the
\* first discovery found no candidates) can be over within the second, so the
\* next one can take the same run_id; otherwise the run_id is new.
RunIds == {run_no + 1} \cup (IF run_no > 0 /\ discovered_items = <<>> THEN {run_id} ELSE {})

\* main, lines 32-84: a new execution; the run record is upserted
StartRunUpTo(max_runs) ==
  /\ pc \in {"idle", "done", "crashed"}
  /\ run_no < max_runs
  /\ run_no' = run_no + 1
  /\ run_id' \in RunIds
  /\ unsettled' = {}
  /\ log' = InitLog
  /\ discovered_items' = <<>>
  /\ idx' = 0
  /\ started' = <<>>
  /\ dedupe_hit' = {}
  /\ before' = Snapshot(InitLog, 0, 0)
  /\ success' = 0
  /\ failed' = 0
  /\ ingest_row' = NoRow
  /\ text' = NoText
  /\ content_hash' = NoHash
  /\ exc' = NoText
  /\ calls' = <<>>
  /\ \/ /\ pc' = "crashed"
        /\ UNCHANGED ingest_runs
     \/ /\ ingest_runs' = upsert_ingest_run(ingest_runs,
              [run_id |-> run_id', finished |-> FALSE, success_count |-> 0,
               fail_count |-> 0, meta |-> [mode |-> "force_enrich_debug"]])
        /\ pc' = "discover"
  /\ UNCHANGED <<ingest_items, regulations, httpVars>>

StartRun == StartRunUpTo(MaxRuns)

\* what a discovery collaborator gives: a list of items, or it raises
ImfResults == {<<DiscoveredItem(d)>> : d \in ImfDocs}

\* discover_iea_natural_gas_reports: one item per matching anchor of the
\* page, in page order, up to the limit; anchors with the same href give
\* items with the same doc_url
IeaResultsUpTo(limit) == UNION {[1..n -> {DiscoveredItem(d) : d \in IeaDocs}] : n \in 1..limit}

IeaResults == IeaResultsUpTo(MaxIea)

\* main, lines 89-121: both discoveries inside one try; the history takes
\* the discovery calls made
DiscoverFrom(iea_results) ==
  /\ pc = "discover"
  /\ \/ \E e \in ErrorsOf("discover_imf") :
          /\ discovered_items' = <<>>
          /\ log' = [log EXCEPT !.errors = Append(@, [stage |-> "discover", doc_url |-> "", error |-> e])]
          /\ calls' = <<Call("discover_imf_reo_meca", "", NoText, FALSE, e)>>
     \/ \E imf \in ImfResults, e \in ErrorsOf("discover_iea") :
          /\ discovered_items' = imf
          /\ log' = [log EXCEPT !.errors = Append(@, [stage |-> "discover", doc_url |-> "", error |-> e]),
                                !.counts.discovered = Len(imf)]
          /\ calls' = <<Call("discover_imf_reo_meca", "", NoText, TRUE, NoText),
                        Call("discover_iea_natural_gas_reports", "", NoText, FALSE, e)>>
     \/ \E imf \in ImfResults, iea \in iea_results :
          /\ discovered_items' = imf \o iea
          /\ log' = [log EXCEPT !.counts.discovered = Len(imf \o iea)]
          /\ calls' = <<Call("discover_imf_reo_meca", "", NoText, TRUE, NoText),
                        Call("discover_iea_natural_gas_reports", "", NoText, TRUE, NoText)>>
  /\ success' = 0
  /\ failed' = 0
  /\ pc' = "loop"
  /\ UNCHANGED <<storeVars, run_no, run_id, idx, ingest_row, text, content_hash, exc,
                 started, dedupe_hit, before, unsettled, httpVars>>

Discover == DiscoverFrom(IeaResults)

\* main, line 123: the for statement takes the next item or ends
NextItem ==
  /\ pc = "loop"
  /\ IF idx < Len(discovered_items)
     THEN /\ idx' = idx + 1
          /\ started' = Append(started, idx + 1)
          /\ pc' = "upsert_item"
     ELSE /\ pc' = "finalize"
          /\ UNCHANGED <<idx, started>>
  /\ ingest_row' = NoRow
  /\ text' = NoText
  /\ content_hash' = NoHash
  /\ exc' = NoText
  /\ calls' = <<>>
  /\ before' = Snapshot(log, success, failed)
  /\ unsettled' = IF idx < Len(discovered_items)
                  THEN unsettled \ {discovered_items[idx + 1].doc_url}
                  ELSE unsettled
  /\ UNCHANGED <<storeVars, run_no, run_id, discovered_items, log, success, failed,
                 dedupe_hit, httpVars>>

\* the variables the item steps leave alone unless they say otherwise
itemFrame == <<run_no, run_id, discovered_items, idx, started, before, ingest_runs,
               unsettled, httpVars>>

\* the same for the except clause, whose history entry is its own
handlerFrame == <<run_no, run_id, discovered_items, idx, started, before, ingest_runs, httpVars>>

\* main, lines 128-144: store.upsert_ingest_item with status "discovered";
\* the store answers with the row, or with an empty list (ingest_row = {})
UpsertItem ==
  /\ pc = "upsert_item"
  /\ \/ \E e \in ErrorsOf("store") :
          /\ Raise(e)
          /\ calls' = Append(calls, Call("upsert_ingest_item", "discovered", NoText, FALSE, e))
          /\ UNCHANGED <<ingest_items, ingest_row>>
     \/ \E representation \in BOOLEAN :
          /\ ingest_items' = upsert_ingest_item(ingest_items,
                [run_id |-> run_id, source_id |-> item.source_id,
                 doc_url |-> item.doc_url, status |-> "discovered"])
          /\ ingest_row' = IF representation
                           THEN [id |-> (CHOOSE r \in RowsOf(ingest_items', item.doc_url) : TRUE).id]
                           ELSE NoRow
          /\ calls' = Append(calls, Call("upsert_ingest_item", "discovered", NoText, TRUE, NoText))
          /\ pc' = "resolve"
          /\ UNCHANGED exc
  /\ UNCHANGED <<itemFrame, regulations, log, success, failed, text, content_hash, dedupe_hit>>

\* main, lines 149-160: the resolver of the item's source; it raises when
\* its fetch fails or no PDF link is found
Resolve ==
  /\ pc = "resolve"
  /\ \/ \E e \in ErrorsOf("resolve") :
          /\ Raise(e)
          /\ calls' = Append(calls, Call("resolve", "", NoText, FALSE, e))
     \/ /\ calls' = Append(calls, Call("resolve", "", NoText, TRUE, NoText))
        /\ pc' = "patch_pdf_url"
        /\ UNCHANGED exc
  /\ UNCHANGED <<itemFrame, ingest_items, regulations, log, success, failed, ingest_row,
                 text, content_hash, dedupe_hit>>

\* main, lines 162-166: status "discovered" with pdf_url
PatchPdfUrl ==
  /\ PatchStep("patch_pdf_url", "discovered", [pdf_url |-> PdfUrlOf(item.doc_url)], "download")
  /\ UNCHANGED <<itemFrame, regulations, log, success, failed, ingest_row, text,
                 content_hash, dedupe_hit>>

\* str(e) of download.PaywallOrHtmlError
PaywallError == Text("Got HTML instead of PDF", 60)

\* main, lines 171-185 with download.download_pdf: the fetch raises, or the
\* response is HTML (PaywallOrHtmlError, handled by the inner except, whose
\* own store call may raise), or the bytes are written
Download ==
  /\ pc = "download"
  /\ \/ \E e \in ErrorsOf("download") :
          /\ Raise(e)
          /\ calls' = Append(calls, Call("download_pdf", "", NoText, FALSE, e))
          /\ UNCHANGED <<ingest_items, log>>
     \/ \E e \in ErrorsOf("store") :
          /\ Raise(e)
          /\ calls' = calls \o <<Call("download_pdf", "text/html", NoText, FALSE, PaywallError),
                                 Call("set_ingest_item_status", "skipped_paywall", PaywallError, FALSE, e)>>
          /\ UNCHANGED <<ingest_items, log>>
     \/ /\ ingest_items' = set_ingest_item_status(ingest_items, item.doc_url,
                                                  "skipped_paywall", PaywallError, NoExtra)
        /\ log' = [log EXCEPT !.counts.skipped_paywall = @ + 1]
        /\ calls' = calls \o <<Call("download_pdf", "text/html", NoText, FALSE, PaywallError),
                               Call("set_ingest_item_status", "skipped_paywall", PaywallError, TRUE, NoText)>>
        /\ pc' = "loop"
        /\ UNCHANGED exc
     \/ /\ calls' = Append(calls, Call("download_pdf", "", NoText, TRUE, NoText))
        /\ pc' = "patch_downloaded"
        /\ UNCHANGED <<ingest_items, log, exc>>
  /\ UNCHANGED <<itemFrame, regulations, success, failed, ingest_row, text, content_hash,
                 dedupe_hit>>

\* main, line 187
PatchDownloaded ==
  /\ PatchStep("patch_downloaded", "downloaded", NoExtra, "extract")
  /\ UNCHANGED <<itemFrame, regulations, log, success, failed, ingest_row, text,
                 content_hash, dedupe_hit>>

\* main, lines 192-196: extract the text, write it to its side file, hash
\* it.  dedupe_hit remembers the items whose regulation already carries
\* this hash.
Extract ==
  /\ pc = "extract"
  /\ \/ \E e \in ErrorsOf("extract") :
          /\ Raise(e)
          /\ calls' = Append(calls, Call("extract_text_from_pdf", "", NoText, FALSE, e))
          /\ UNCHANGED <<text, content_hash, dedupe_hit>>
     \/ \E t \in Texts, e \in ErrorsOf("write") :
          /\ text' = t
          /\ Raise(e)
          /\ calls' = calls \o <<Call("extract_text_from_pdf", "", NoText, TRUE, NoText),
                                 Call("write_text", "", NoText, FALSE, e)>>
          /\ UNCHANGED <<content_hash, dedupe_hit>>
     \/ \E t \in Texts :
          /\ text' = t
          /\ content_hash' = sha256_text(t)
          /\ dedupe_hit' = IF \E r \in get_regulation_by_doc_url(regulations, item.doc_url) :
                                  r.content_hash = sha256_text(t)
                           THEN dedupe_hit \cup {idx} ELSE dedupe_hit
          /\ calls' = calls \o <<Call("extract_text_from_pdf", "", NoText, TRUE, NoText),
                                 Call("write_text", "", NoText, TRUE, NoText)>>
          /\ pc' = "patch_extracted"
          /\ UNCHANGED exc
  /\ UNCHANGED <<itemFrame, ingest_items, regulations, log, success, failed, ingest_row>>

\* main, lines 198-205
PatchExtracted ==
  /\ PatchStep("patch_extracted", "extracted",
               [content_hash |-> content_hash, raw_text_length |-> text.len], "enrich")
  /\ UNCHANGED <<itemFrame, regulations, log, success, failed, ingest_row, text,
                 content_hash, dedupe_hit>>

\* main, lines 210-222: summarize_report is called for every extracted
\* item, and its output is written to a side file
Enrich ==
  /\ pc = "enrich"
  /\ \/ \E e \in ErrorsOf("enrich") :
          /\ Raise(e)
          /\ calls' = Append(calls, Call("summarize_report", "", NoText, FALSE, e))
     \/ \E e \in ErrorsOf("write") :
          /\ Raise(e)
          /\ calls' = calls \o <<Call("summarize_report", "", NoText, TRUE, NoText),
                                 Call("write_text", "", NoText, FALSE, e)>>
     \/ /\ calls' = calls \o <<Call("summarize_report", "", NoText, TRUE, NoText),
                               Call("write_text", "", NoText, TRUE, NoText)>>
        /\ pc' = "patch_enriched"
        /\ UNCHANGED exc
  /\ UNCHANGED <<itemFrame, ingest_items, regulations, log, success, failed, ingest_row,
                 text, content_hash, dedupe_hit>>

\* variant: the item is marked "stored" before its regulation is written
PatchEnriched_Stored ==
  /\ PatchStep("patch_enriched", "stored", NoExtra, "upsert_regulation")
  /\ UNCHANGED <<itemFrame, regulations, log, success, failed, ingest_row, text,
                 content_hash, dedupe_hit>>

\* main, line 224
PatchEnriched ==
  /\ PatchStep("patch_enriched", "enriched", NoExtra, "upsert_regulation")
  /\ UNCHANGED <<itemFrame, regulations, log, success, failed, ingest_row, text,
                 content_hash, dedupe_hit>>

\* str(e) of RuntimeError("Missing ingest_item_id after upsert")
MissingIdError == Text("Missing ingest_item_id after upsert", 35)

\* variant: no id check before the regulation is written
UpsertRegulation_NoIdCheck ==
  /\ pc = "upsert_regulation"
  /\ regulations' = upsert_regulation(regulations,
        [ingest_item_id |-> ingest_row.id, doc_url |-> item.doc_url,
         source_id |-> item.source_id, pdf_url |-> PdfUrlOf(item.doc_url),
         summary |-> <<"summary", text.kind>>,
         raw_text_length |-> text.len, content_hash |-> content_hash])
  /\ calls' = Append(calls, Call("upsert_regulation", "", NoText, TRUE, NoText))
  /\ pc' = "patch_stored"
  /\ UNCHANGED <<itemFrame, ingest_items, log, success, failed, ingest_row, text,
                 content_hash, exc, dedupe_hit>>

\* variant: the id check is made and the regulation is not written
UpsertRegulation_Skipped ==
  /\ pc = "upsert_regulation"
  /\ IF ingest_row.id = 0
     THEN /\ Raise(MissingIdError)
          /\ UNCHANGED calls
     ELSE /\ calls' = Append(calls, Call("upsert_regulation", "", NoText, TRUE, NoText))
          /\ pc' = "patch_stored"
          /\ UNCHANGED exc
  /\ UNCHANGED <<itemFrame, ingest_items, regulations, log, success, failed, ingest_row,
                 text, content_hash, dedupe_hit>>

\* main, lines 229-257: the id check, then store.upsert_regulation
UpsertRegulation ==
  /\ pc = "upsert_regulation"
  /\ IF ingest_row.id = 0
     THEN /\ Raise(MissingIdError)
          /\ UNCHANGED <<regulations, calls>>
     ELSE \/ \E e \in ErrorsOf("store") :
               /\ Raise(e)
               /\ calls' = Append(calls, Call("upsert_regulation", "", NoText, FALSE, e))
               /\ UNCHANGED regulations
          \/ /\ regulations' = upsert_regulation(regulations,
                   [ingest_item_id |-> ingest_row.id, doc_url |-> item.doc_url,
                    source_id |-> item.source_id, pdf_url |-> PdfUrlOf(item.doc_url),
                    summary |-> <<"summary", text.kind>>,
                    raw_text_length |-> text.len, content_hash |-> content_hash])
             /\ calls' = Append(calls, Call("upsert_regulation", "", NoText, TRUE, NoText))
             /\ pc' = "patch_stored"
             /\ UNCHANGED exc
  /\ UNCHANGED <<itemFrame, ingest_items, log, success, failed, ingest_row, text,
                 content_hash, dedupe_hit>>

\* main, line 259
PatchStored ==
  /\ PatchStep("patch_stored", "stored", NoExtra, "count")
  /\ UNCHANGED <<itemFrame, regulations, log, success, failed, ingest_row, text,
                 content_hash, dedupe_hit>>

\* variant: the item is stored but not counted as processed
CountProcessed_NotCounted ==
  /\ pc = "count"
  /\ success' = success + 1
  /\ log' = [log EXCEPT !.sources = Append(@, item.doc_url)]
  /\ pc' = "loop"
  /\ UNCHANGED <<itemFrame, ingest_items, regulations, failed, ingest_row, text,
                 content_hash, exc, calls, dedupe_hit>>

\* main, lines 261-274
CountProcessed ==
  /\ pc = "count"
  /\ success' = success + 1
  /\ log' = [log EXCEPT !.counts.processed = @ + 1,
                        !.sources = Append(@, item.doc_url)]
  /\ pc' = "loop"
  /\ UNCHANGED <<itemFrame, ingest_items, regulations, failed, ingest_row, text,
                 content_hash, exc, calls, dedupe_hit>>

\* variant: no except clause at the item boundary, the exception ends main
HandleException_Unhandled ==
  /\ pc = "except"
  /\ pc' = "crashed"
  /\ UNCHANGED <<itemFrame, ingest_items, regulations, log, success, failed, ingest_row,
                 text, content_hash, exc, calls, dedupe_hit>>

\* variant: the "failed" patch is sent without the error text
HandleException_NoErrorText ==
  /\ pc = "except"
  /\ failed' = failed + 1
  /\ log' = [log EXCEPT !.counts.failed = @ + 1,
                        !.errors = Append(@, [stage |-> "process", doc_url |-> item.doc_url,
                                              error |-> exc])]
  /\ \E ok \in BOOLEAN :
       /\ ingest_items' = IF ok
                          THEN set_ingest_item_status(ingest_items, item.doc_url, "failed",
                                                      NoText, NoExtra)
                          ELSE ingest_items
       /\ calls' = Append(calls, Call("set_ingest_item_status", "failed", NoText, ok,
                                   IF ok THEN NoText ELSE Text("store", 40)))
       /\ unsettled' = IF ok THEN unsettled \ {item.doc_url}
                       ELSE unsettled \cup {item.doc_url}
  /\ pc' = "loop"
  /\ UNCHANGED <<handlerFrame, regulations, success, ingest_row, text, content_hash, exc,
                 dedupe_hit>>

\* variant: the "failed" patch is not in a try of its own, its exception
\* ends main
HandleException_PatchUnguarded ==
  /\ pc = "except"
  /\ failed' = failed + 1
  /\ log' = [log EXCEPT !.counts.failed = @ + 1,
                        !.errors = Append(@, [stage |-> "process", doc_url |-> item.doc_url,
                                              error |-> exc])]
  /\ \E ok \in BOOLEAN :
       /\ ingest_items' = IF ok
                          THEN set_ingest_item_status(ingest_items, item.doc_url, "failed",
                                                      exc, NoExtra)
                          ELSE ingest_items
       /\ calls' = Append(calls, Call("set_ingest_item_status", "failed", exc, ok,
                                   IF ok THEN NoText ELSE Text("store", 40)))
       /\ unsettled' = IF ok THEN unsettled \ {item.doc_url}
                       ELSE unsettled \cup {item.doc_url}
       /\ pc' = IF ok THEN "loop" ELSE "crashed"
  /\ UNCHANGED <<handlerFrame, regulations, success, ingest_row, text, content_hash, exc,
                 dedupe_hit>>

\* variant: the except clause counts and logs the failure and sends no
\* "failed" patch
HandleException_NoPatch ==
  /\ pc = "except"
  /\ failed' = failed + 1
  /\ log' = [log EXCEPT !.counts.failed = @ + 1,
                        !.errors = Append(@, [stage |-> "process", doc_url |-> item.doc_url,
                                              error |-> exc])]
  /\ pc' = "loop"
  /\ UNCHANGED <<itemFrame, ingest_items, regulations, success, ingest_row, text,
                 content_hash, exc, calls, dedupe_hit>>

\* variant: the except clause counts the failure in its local counter only,
\* not in log["counts"]
HandleException_LocalOnly ==
  /\ pc = "except"
  /\ failed' = failed + 1
  /\ log' = [log EXCEPT !.errors = Append(@, [stage |-> "process", doc_url |-> item.doc_url,
                                              error |-> exc])]
  /\ \E ok \in BOOLEAN :
       /\ ingest_items' = IF ok
                          THEN set_ingest_item_status(ingest_items, item.doc_url, "failed",
                                                      exc, NoExtra)
                          ELSE ingest_items
       /\ calls' = Append(calls, Call("set_ingest_item_status", "failed", exc, ok,
                                   IF ok THEN NoText ELSE Text("store", 40)))
       /\ unsettled' = IF ok THEN unsettled \ {item.doc_url}
                       ELSE unsettled \cup {item.doc_url}
  /\ pc' = "loop"
  /\ UNCHANGED <<handlerFrame, regulations, success, ingest_row, text, content_hash, exc,
                 dedupe_hit>>

\* main, lines 276-294: the except clause of the item loop; the failure of
\* its own store call is passed over
HandleException ==
  /\ pc = "except"
  /\ failed' = failed + 1
  /\ log' = [log EXCEPT !.counts.failed = @ + 1,
                        !.errors = Append(@, [stage |-> "process", doc_url |-> item.doc_url,
                                              error |-> exc])]
  /\ \E ok \in BOOLEAN :
       /\ ingest_items' = IF ok
                          THEN set_ingest_item_status(ingest_items, item.doc_url, "failed",
                                                      exc, NoExtra)
                          ELSE ingest_items
       /\ calls' = Append(calls, Call("set_ingest_item_status", "failed", exc, ok,
                                   IF ok THEN NoText ELSE Text("store", 40)))
       /\ unsettled' = IF ok THEN unsettled \ {item.doc_url}
                       ELSE unsettled \cup {item.doc_url}
  /\ pc' = "loop"
  /\ UNCHANGED <<handlerFrame, regulations, success, ingest_row, text, content_hash, exc,
                 dedupe_hit>>

\* main, lines 299-317: store.update_ingest_run with the totals; an
\* exception of this call ends the process
Finalize ==
  /\ pc = "finalize"
  /\ \/ /\ pc' = "crashed"
        /\ UNCHANGED ingest_runs
     \/ /\ ingest_runs' = update_ingest_run(ingest_runs, run_id,
              [success_count |-> success, fail_count |-> failed, meta |-> log.counts])
        /\ pc' = "done"
  /\ UNCHANGED <<ingest_items, regulations, run_no, run_id, discovered_items, idx, log,
                 success, failed, ingest_row, text, content_hash, exc, calls, started,
                 dedupe_hit, before, unsettled, httpVars>>

Next ==
  \/ StartRun
  \/ Discover
  \/ NextItem
  \/ UpsertItem
  \/ Resolve
  \/ PatchPdfUrl
  \/ Download
  \/ PatchDownloaded
  \/ Extract
  \/ PatchExtracted
  \/ Enrich
  \/ PatchEnriched
  \/ UpsertRegulation
  \/ PatchStored
  \/ CountProcessed
  \/ HandleException
  \/ Finalize

Spec == Init /\ [][Next]_vars

\* one execution over a listing page that can repeat a link
StartRunDup == StartRunUpTo(MaxRunsDup)

DiscoverDup == DiscoverFrom(IeaResultsUpTo(MaxIeaDup))

NextDup ==
  \/ StartRunDup
  \/ DiscoverDup
  \/ NextItem
  \/ UpsertItem
  \/ Resolve
  \/ PatchPdfUrl
  \/ Download
  \/ PatchDownloaded
  \/ Extract
  \/ PatchExtracted
  \/ Enrich
  \/ PatchEnriched
  \/ UpsertRegulation
  \/ PatchStored
  \/ CountProcessed
  \/ HandleException
  \/ Finalize

SpecDup == Init /\ [][NextDup]_vars

\* ------------------------------------------------------ http.py, stages
\* configurations: max_retries, and rps_per_domain 0.05, 0.5 and 1.0
RpsChoices == {5, 50, 100}

Configs == [max_retries : 0..MaxRetries, rps : RpsChoices]

\* ticks by which time.sleep may return late
Overshoot == {0, 1}

\* random.random() of the backoff, rounded to ticks
Jitters == {0, 1}

\* ticks between two stage calls
Pauses == {0, 2}

\* ticks between two direct wait calls
RLPauses == {0, 1, 3, 11}

pipeVarsAll == <<storeVars, runVars>>

Event(ev, info) == [ev |-> ev, info |-> info]

\* variant: one timestamp for all domains
Wait_SharedTimestamp(t, u, over) ==
  LET domain == u.netloc
      last == IF DOMAIN rl = {} THEN DefaultLast
              ELSE rl[CHOOSE d \in DOMAIN rl : \A e \in DOMAIN rl : rl[e] <= rl[d]]
      min_interval == MinInterval(cfg.rps)
      sleep_s == (last + min_interval) - t
      ret == IF sleep_s > 0 THEN t + sleep_s + over ELSE t
  IN /\ now' = ret
     /\ rl' = [d \in DOMAIN rl \cup {domain} |-> IF d = domain THEN ret ELSE rl[d]]
     /\ waits' = Append(waits, [domain |-> domain, called |-> t,
                                sleep_s |-> Max(sleep_s, 0), ret |-> ret])

\* RateLimiter.wait(u), called at time t
Wait(t, u, over) ==
  LET domain == u.netloc
      last == IF domain \in DOMAIN rl THEN rl[domain] ELSE DefaultLast
      min_interval == MinInterval(cfg.rps)
      sleep_s == (last + min_interval) - t
      ret == IF sleep_s > 0 THEN t + sleep_s + over ELSE t
  IN /\ now' = ret
     /\ rl' = [d \in DOMAIN rl \cup {domain} |-> IF d = domain THEN ret ELSE rl[d]]
     /\ waits' = Append(waits, [domain |-> domain, called |-> t,
                                sleep_s |-> Max(sleep_s, 0), ret |-> ret])

InitHttp ==
  /\ pipeOff
  /\ pc = "off"
  /\ now = StartTime
  /\ cfg \in Configs
  /\ rl = NoTimestamps
  /\ hpc = "idle"
  /\ url = NoRequest
  /\ attempt = 0
  /\ last_exc = NoCause
  /\ result = NoResult
  /\ stages = 0
  /\ events = <<>>
  /\ gets = <<>>
  /\ waits = <<>>

\* discover.py 25-27, resolve.py 23-25 and 44-46, download.py 19-21: a stage
\* builds its own RateLimiter and calls fetch (http.py 33-34)
StageFetch ==
  /\ hpc = "idle"
  /\ stages < MaxStages
  /\ \E u \in Urls, pause \in Pauses :
       /\ url' = u
       /\ now' = now + pause
  /\ rl' = NoTimestamps
  /\ attempt' = 0
  /\ last_exc' = NoCause
  /\ result' = NoResult
  /\ events' = <<>>
  /\ stages' = stages + 1
  /\ hpc' = "wait"
  /\ UNCHANGED <<pipeVarsAll, cfg, gets, waits>>

\* fetch, line 38: rl.wait(url)
FetchWait ==
  /\ hpc = "wait"
  /\ \E over \in Overshoot : Wait(now, url, over)
  /\ events' = Append(events, Event("wait", 0))
  /\ hpc' = "get"
  /\ UNCHANGED <<pipeVarsAll, cfg, url, attempt, last_exc, result, stages, gets>>

\* variant: a retry issues its GET without calling rl.wait again
NextAttempt_NoWait(exc_now) ==
  IF attempt < cfg.max_retries
  THEN /\ attempt' = attempt + 1
       /\ hpc' = "get"
       /\ UNCHANGED result
  ELSE /\ result' = [kind |-> "raised", status |-> 0, attempt |-> attempt, cause |-> exc_now]
       /\ hpc' = "idle"
       /\ UNCHANGED attempt

\* fetch, lines 36 and 54: the loop goes to its next attempt, or is
\* exhausted and fetch raises with last_exc in its message
NextAttempt(exc_now) ==
  IF attempt < cfg.max_retries
  THEN /\ attempt' = attempt + 1
       /\ hpc' = "wait"
       /\ UNCHANGED result
  ELSE /\ result' = [kind |-> "raised", status |-> 0, attempt |-> attempt, cause |-> exc_now]
       /\ hpc' = "idle"
       /\ UNCHANGED attempt

\* variant: resp.raise_for_status() before the return, so that an error
\* status outside the backoff set is retried like a transport exception
FetchGet_RaiseForStatus ==
  /\ hpc = "get"
  /\ gets' = Append(gets, [domain |-> url.netloc, at |-> now])
  /\ \/ \E st \in {x \in Statuses \ BackoffStatuses : x < 400} :
          /\ result' = [kind |-> "response", status |-> st, attempt |-> attempt, cause |-> NoCause]
          /\ events' = Append(events, Event("get", st))
          /\ hpc' = "idle"
          /\ UNCHANGED <<now, attempt, last_exc>>
     \/ \E st \in Statuses \cap BackoffStatuses, jitter \in Jitters :
          /\ now' = now + (2 ^ attempt) + jitter
          /\ events' = events \o <<Event("get", st), Event("sleep", (2 ^ attempt) + jitter)>>
          /\ UNCHANGED last_exc
          /\ NextAttempt(last_exc)
     \/ \E st \in {0} \cup {x \in Statuses \ BackoffStatuses : x >= 400}, jitter \in Jitters :
          /\ last_exc' = <<"exc", attempt>>
          /\ now' = now + (2 ^ attempt) + jitter
          /\ events' = events \o <<Event("get", st), Event("sleep", (2 ^ attempt) + jitter)>>
          /\ NextAttempt(<<"exc", attempt>>)
  /\ UNCHANGED <<pipeVarsAll, cfg, rl, url, stages, waits>>

\* fetch, lines 39-52: client.get and what follows it
FetchGet ==
  /\ hpc = "get"
  /\ gets' = Append(gets, [domain |-> url.netloc, at |-> now])
  /\ \/ \E st \in Statuses \ BackoffStatuses :
          /\ result' = [kind |-> "response", status |-> st, attempt |-> attempt, cause |-> NoCause]
          /\ events' = Append(events, Event("get", st))
          /\ hpc' = "idle"
          /\ UNCHANGED <<now, attempt, last_exc>>
     \/ \E st \in Statuses \cap BackoffStatuses, jitter \in Jitters :
          /\ now' = now + (2 ^ attempt) + jitter
          /\ events' = events \o <<Event("get", st), Event("sleep", (2 ^ attempt) + jitter)>>
          /\ UNCHANGED last_exc
          /\ NextAttempt(last_exc)
     \/ \E jitter \in Jitters :
          /\ last_exc' = <<"exc", attempt>>
          /\ now' = now + (2 ^ attempt) + jitter
          /\ events' = events \o <<Event("get", 0), Event("sleep", (2 ^ attempt) + jitter)>>
          /\ NextAttempt(<<"exc", attempt>>)
  /\ UNCHANGED <<pipeVarsAll, cfg, rl, url, stages, waits>>

NextHttp ==
  \/ StageFetch
  \/ FetchWait
  \/ FetchGet

SpecHttp == InitHttp /\ [][NextHttp]_vars

\* ------------------------------------------------- one RateLimiter object
InitRL ==
  /\ pipeOff
  /\ pc = "off"
  /\ now = StartTime
  /\ cfg \in [max_retries : {0}, rps : RpsChoices]
  /\ rl = NoTimestamps
  /\ hpc = "limiter"
  /\ url = NoRequest
  /\ attempt = 0
  /\ last_exc = NoCause
  /\ result = NoResult
  /\ stages = 0
  /\ events = <<>>
  /\ gets = <<>>
  /\ waits = <<>>

\* a caller lets some time pass and calls wait(u) on the instance
RLWait ==
  /\ hpc = "limiter"
  /\ Len(waits) < MaxWaits
  /\ \E u \in Urls, pause \in RLPauses, over \in Overshoot :
       /\ url' = u
       /\ Wait(now + pause, u, over)
  /\ UNCHANGED <<pipeVarsAll, cfg, hpc, attempt, last_exc, result, stages, events, gets>>

NextRL == RLWait

SpecRL == InitRL /\ [][NextRL]_vars

\* ================================================================ claims
\* positions of the call history with the given operation
CallsOf(op) == {i \in 1..Len(calls) : calls[i].op = op}

\* the operation was called for the item and returned
CallOk(op) == \E i \in CallsOf(op) : calls[i].ok

\* status patches attempted for the item with the given status
PatchesOf(status) ==
  {i \in CallsOf("set_ingest_item_status") : calls[i].status = status}

\* the loop has finished the item at idx and not yet taken the next one
ItemEnded == pc = "loop" /\ idx > 0

\* the item's rows in the store
ItemRows == RowsOf(ingest_items, item.doc_url)

\* C1: an item whose fresh content hash equals the hash of the regulation
\* stored for its doc_url is not enriched, its regulation is not upserted
\* and it is never patched to "enriched".
C1_DedupeShortCircuit ==
  (idx \in dedupe_hit /\ pc \notin {"finalize", "done", "crashed"}) =>
     /\ CallsOf("summarize_report") = {}
     /\ CallsOf("upsert_regulation") = {}
     /\ PatchesOf("enriched") = {}

\* C2: at the end of a run with unchanged items the persisted counters hold
\* skipped_unchanged = number of unchanged items, and those items are not
\* counted as processed.
C2_UnchangedAccounting ==
  (pc = "done" /\ dedupe_hit # {}) =>
     \E r \in ingest_runs :
        /\ r.run_id = run_id
        /\ "skipped_unchanged" \in DOMAIN r.meta
        /\ r.meta.skipped_unchanged = Cardinality(dedupe_hit)
        /\ r.meta.processed <= Len(discovered_items) - Cardinality(dedupe_hit)

\* the item passed resolve, download and extract, and its hash is new
ChangedOrNew ==
  /\ ItemEnded
  /\ CallOk("resolve")
  /\ CallOk("download_pdf")
  /\ CallOk("extract_text_from_pdf")
  /\ idx \notin dedupe_hit

\* what C3 promises for such an item
FullyProcessed ==
  /\ Cardinality(CallsOf("summarize_report")) = 1
  /\ CallOk("summarize_report") =>
       /\ Cardinality(CallsOf("upsert_regulation")) = 1
       /\ \E r \in RowsOf(regulations, item.doc_url) : r.content_hash = sha256_text(text)
       /\ \A r \in ItemRows : r.status = "stored"
       /\ ItemRows # {}
       /\ log.counts.processed = before.counts.processed + 1
       /\ log.counts.failed = before.counts.failed
       /\ failed = before.failed

\* none of the store calls and side-file writes made for the item raised
NoStoreCallRaised ==
  \A i \in 1..Len(calls) :
     calls[i].op \in {"upsert_ingest_item", "set_ingest_item_status", "upsert_regulation",
                      "write_text"}
        => calls[i].ok

\* C3 as written: every changed or new item that passed resolve, download
\* and extract is enriched once and, if enrichment succeeds, stored and
\* counted as processed.
C3_Original == ChangedOrNew => FullyProcessed

\* C3 (amended): the same, for the items none of whose store calls and
\* side-file writes raises and whose upsert_ingest_item returned an id.
C3_ChangedOrNew ==
  (ChangedOrNew /\ NoStoreCallRaised /\ ingest_row.id # 0) => FullyProcessed

C3_Witness ==
  /\ ChangedOrNew
  /\ NoStoreCallRaised
  /\ ingest_row.id # 0
  /\ CallOk("summarize_report")
  /\ \E r \in RowsOf(regulations, item.doc_url) : r.content_hash = sha256_text(text)
  /\ log.counts.processed = 1

\* the download of the item answered with content-type text/html
GotHtml == \E i \in CallsOf("download_pdf") : calls[i].status = "text/html"

\* C4: an item whose download is HTML always ends as skipped_paywall: not
\* failed, not stored, not enriched, no regulation written, and the
\* skipped_paywall counter grows by one, whatever the store does.
C4_PaywallOutcome ==
  (ItemEnded /\ GotHtml) =>
     /\ failed = before.failed
     /\ log.counts.failed = before.counts.failed
     /\ log.counts.skipped_paywall = before.counts.skipped_paywall + 1
     /\ log.counts.processed = before.counts.processed
     /\ CallsOf("summarize_report") = {}
     /\ CallsOf("upsert_regulation") = {}
     /\ PatchesOf("failed") = {}
     /\ PatchesOf("stored") = {}

\* C5: the loop starts every discovered item once, in discovery order, and
\* no step of an item ends the run: it ends (or crashes) only in the run's
\* own first and last store calls.
C5_FailureIsolation ==
  /\ [](/\ started = [i \in 1..idx |-> i]
        /\ pc \in {"finalize", "done"} => idx = Len(discovered_items))
  /\ [][pc' = "crashed" => pc \in {"idle", "done", "crashed", "finalize"}]_vars
  /\ [][pc' = "finalize" => (pc = "loop" /\ idx = Len(discovered_items))]_vars

C5_Witness ==
  /\ pc = "finalize"
  /\ Len(discovered_items) = 2
  /\ Len(log.errors) = 1
  /\ log.errors[1].doc_url = discovered_items[1].doc_url
  /\ log.counts.processed = 1

\* the calls whose exception C6 is about
FailingStage(c) ==
  /\ ~c.ok
  /\ \/ c.op \in {"resolve", "extract_text_from_pdf", "summarize_report", "upsert_regulation"}
     \/ c.op = "download_pdf" /\ c.status # "text/html"

\* C6: when resolve, download (not HTML), extract, enrich or the
\* regulation upsert raises, failed grows by exactly one, the log gets one
\* entry with the doc_url and the error text, a "failed" patch with that
\* text is attempted, and nothing else is called for the item.
C6_FailureTransition ==
  \A i \in 1..Len(calls) :
     (ItemEnded /\ FailingStage(calls[i])) =>
        /\ failed = before.failed + 1
        /\ log.counts.failed = before.counts.failed + 1
        /\ Len(log.errors) = before.errors + 1
        /\ log.errors[Len(log.errors)] =
             [stage |-> "process", doc_url |-> item.doc_url, error |-> calls[i].raised]
        /\ Len(calls) = i + 1
        /\ calls[i + 1].op = "set_ingest_item_status"
        /\ calls[i + 1].status = "failed"
        /\ calls[i + 1].error = calls[i].raised
        /\ log.counts.processed = before.counts.processed

C6_Witness ==
  /\ ItemEnded
  /\ idx = 2
  /\ Len(calls) = 7
  /\ FailingStage(calls[6])
  /\ calls[6].op = "extract_text_from_pdf"
  /\ ~calls[7].ok

\* the interval the limiter is to keep for rps_per_domain = r (hundredths):
\* 1 / max(r, 0.1) seconds
FlooredInterval(r) == IF r < 10 THEN 10 ELSE 100 \div r

\* i and j are consecutive entries of history h for one domain
ConsecutiveSameDomain(h, i, j) ==
  /\ i < j
  /\ h[i].domain = h[j].domain
  /\ \A k \in (i + 1)..(j - 1) : h[k].domain # h[i].domain

\* C7: over the stages of one run, two consecutive GETs to one domain are
\* at least 1/max(rps_per_domain, 0.1) seconds apart.
C7_RunWideRateLimit ==
  \A i, j \in 1..Len(gets) :
     ConsecutiveSameDomain(gets, i, j) => gets[j].at - gets[i].at >= FlooredInterval(cfg.rps)

\* the timestamp a wait call finds for its domain on the instance
RecordedFor(j) ==
  LET prev == {i \in 1..(j - 1) : waits[i].domain = waits[j].domain}
  IN IF prev = {} THEN 0 ELSE waits[CHOOSE i \in prev : \A k \in prev : k <= i].ret

\* waits of one domain, as positions of the history
WaitsOn(d) == {i \in 1..Len(waits) : waits[i].domain = d}

\* consecutive waits of a domain return at least gap apart, N of them take
\* at least (N-1) * gap from the first call to the last return, and a wait
\* sleeps only for the timestamp of its own domain
SpacedBy(gap) ==
  /\ \A i, j \in 1..Len(waits) :
        ConsecutiveSameDomain(waits, i, j) => waits[j].ret - waits[i].ret >= gap
  /\ \A d \in Domains : \A i, j \in WaitsOn(d) :
        i <= j => waits[j].ret - waits[i].called >=
                    (Cardinality({k \in WaitsOn(d) : i <= k /\ k <= j}) - 1) * gap
  /\ \A j \in 1..Len(waits) :
        waits[j].sleep_s > 0 => RecordedFor(j) + gap > waits[j].called

\* C8 as written: on one RateLimiter with rps_per_domain = r, consecutive
\* waits of a domain return at least 1/r apart.
C8_Original == SpacedBy(100 \div cfg.rps)

\* C8 (amended): consecutive waits of a domain return at least
\* 1/max(r, 0.1) apart, N of them take at least (N-1)/max(r, 0.1), and a
\* wait never sleeps because of the timestamp of another domain.
C8_Spacing ==
  /\ SpacedBy(FlooredInterval(cfg.rps))
  /\ \A j \in 1..Len(waits) :
        waits[j].sleep_s > 0 =>
           /\ WaitsOn(waits[j].domain) \cap 1..(j - 1) # {}
           /\ waits[j].sleep_s = RecordedFor(j) + FlooredInterval(cfg.rps) - waits[j].called

C8_Witness ==
  /\ Len(waits) = 3
  /\ cfg.rps = 5
  /\ waits[1].domain = waits[3].domain
  /\ waits[2].domain # waits[1].domain
  /\ waits[2].sleep_s = 0
  /\ waits[2].called < waits[1].ret + 10
  /\ waits[3].sleep_s > 0

\* the GETs of the current fetch, in order (info: status, 0 for an exception)
GetEvents == SelectSeq(events, LAMBDA e : e.ev = "get")

\* the first k attempts got a backoff status, attempt k+1 another status
BackoffThenAnswer(k) ==
  /\ Len(GetEvents) >= k + 1
  /\ \A i \in 1..k : GetEvents[i].info \in BackoffStatuses
  /\ GetEvents[k + 1].info \notin BackoffStatuses \cup {0}

\* every GET of the current fetch comes right after one wait
EachGetAfterOneWait ==
  /\ \A p \in 1..Len(events) :
        events[p].ev = "get" => (p > 1 /\ events[p - 1].ev = "wait")
  /\ \A p \in 2..Len(events) : events[p].ev = "wait" => events[p - 1].ev # "wait"
  /\ Cardinality({p \in 1..Len(events) : events[p].ev = "wait"}) = Len(GetEvents)

\* C9: backoff statuses on the first k < max_retries attempts and another
\* status on attempt k+1: fetch returns that response after exactly k+1
\* GETs, each right after one wait.
C9_RetryToSuccess ==
  \A k \in 0..(cfg.max_retries - 1) :
     BackoffThenAnswer(k) =>
        /\ result.kind = "response"
        /\ result.attempt = k
        /\ result.status = GetEvents[k + 1].info
        /\ Len(GetEvents) = k + 1
        /\ EachGetAfterOneWait
        /\ hpc = "idle"

C9_Witness ==
  /\ cfg.max_retries = 2
  /\ BackoffThenAnswer(1)
  /\ result.kind = "response"
  /\ result.status = 200

\* all max_retries+1 attempts ended in a backoff status or an exception
AllAttemptsFailed ==
  /\ Len(GetEvents) = cfg.max_retries + 1
  /\ \A i \in 1..Len(GetEvents) : GetEvents[i].info \in BackoffStatuses \cup {0}

\* the cause of the last attempt's failure
LastAttemptCause ==
  LET g == GetEvents[Len(GetEvents)]
  IN IF g.info = 0 THEN <<"exc", Len(GetEvents) - 1>> ELSE <<"status", g.info>>

\* C10: when every attempt fails, fetch raises after exactly max_retries+1
\* GETs and the error carries the cause of the last attempt.
C10_Exhaustion ==
  AllAttemptsFailed =>
     /\ result.kind = "raised"
     /\ hpc = "idle"
     /\ result.cause = LastAttemptCause

\* ------------------------------------------------------------- discovery
\* the discovery step is over and the loop has not taken an item
DiscoveryEnded == pc = "loop" /\ idx = 0

\* C11: when one source's discovery raises, the other source's discovery is
\* still called, its items are in the list and counted in discovered, and
\* the discovery error is in the run log.
C11_DiscoveryIsolation ==
  DiscoveryEnded =>
     /\ CallsOf("discover_imf_reo_meca") # {}
     /\ CallsOf("discover_iea_natural_gas_reports") # {}
     /\ \A i \in 1..Len(calls) :
          /\ calls[i].ok => \E j \in 1..Len(discovered_items) :
                               discovered_items[j].source_id =
                                 (IF calls[i].op = "discover_imf_reo_meca"
                                  THEN "imf_reo_meca" ELSE "iea_gas_reports")
          /\ ~calls[i].ok => \E j \in 1..Len(log.errors) :
                                /\ log.errors[j].stage = "discover"
                                /\ log.errors[j].error = calls[i].raised
     /\ log.counts.discovered = Len(discovered_items)

\* C12: a store exception at the run record, when it is created at the start
\* or updated at the end, is logged and passed over: main never ends on it,
\* and after a failed creation the discovery step is still reached.
C12_RunBoundarySwallowed ==
  [][/\ pc' # "crashed"
     /\ (pc \in {"idle", "done", "crashed"} /\ run_no' = run_no + 1) => pc' = "discover"
     /\ pc = "finalize" => pc' = "done"]_vars

\* ------------------------------------------------------- item life cycle
Terminal == {"stored", "skipped_paywall", "skipped_unchanged", "failed"}

Transient == {"discovered", "downloaded", "extracted", "enriched"}

\* the positions of main inside a stage of the item at idx
StagePcs ==
  {"upsert_item", "resolve", "patch_pdf_url", "download", "patch_downloaded", "extract",
   "patch_extracted", "enrich", "patch_enriched", "upsert_regulation", "patch_stored"}

\* rows this run has written (upsert_ingest_item stamps them with its
\* run_id) and that have since been given a terminal status
SettledRows == {r \in ingest_items : r.run_id = run_id /\ r.status \in Terminal}

\* C13: once a doc_url's status has been set to a terminal state in a run,
\* no later step of that run changes the status and no stage runs for that
\* doc_url again, also when the discovered list holds the doc_url twice.
C13_TerminalFinal ==
  [][run_no' = run_no =>
       \A r \in SettledRows :
          /\ \A q \in RowsOf(ingest_items', r.doc_url) : q.status = r.status
          /\ pc' \in StagePcs => discovered_items'[idx'].doc_url # r.doc_url]_vars

\* ---------------------------------------------------------- natural keys
RunRows(rid) == {r \in ingest_runs : r.run_id = rid}

\* C14: whatever the runs and their discovered lists, the store holds at
\* most one ingest item and at most one regulation per doc_url, and at most
\* one run record per run_id.
C14_NaturalKeys ==
  /\ \A d \in DocUrls :
        /\ Cardinality(RowsOf(ingest_items, d)) <= 1
        /\ Cardinality(RowsOf(regulations, d)) <= 1
  /\ \A rid \in 1..run_no : Cardinality(RunRows(rid)) <= 1

\* a second run has stored again the one document the first run stored,
\* with a different text
C14_Witness ==
  /\ run_no = 2
  /\ run_id = 2
  /\ pc = "done"
  /\ \E r \in RunRows(1) : r.success_count = 1
  /\ \E r \in RunRows(2) : r.success_count = 1
  /\ Cardinality(ingest_items) = 1
  /\ \E r \in regulations : r.content_hash = sha256_text(Text("bodyB", 16))
  /\ dedupe_hit = {}

\* a second run started in the second of the first and shares its record
C14_SameSecond ==
  /\ run_no = 2
  /\ run_id = 1
  /\ pc = "done"
  /\ Cardinality(RunRows(1)) = 1

\* ------------------------------------------------------ missing identifier
\* upsert_ingest_item returned for the item, without an id
MissingId == CallOk("upsert_ingest_item") /\ ingest_row = NoRow

\* the item ended in the inner except clause: HTML, and the patch applied
SkippedAsPaywall ==
  /\ GotHtml
  /\ \E i \in PatchesOf("skipped_paywall") : calls[i].ok

\* the item went through the except clause of the loop
CountedFailed ==
  /\ failed = before.failed + 1
  /\ log.counts.failed = before.counts.failed + 1
  /\ PatchesOf("failed") = {Len(calls)}

\* C15 as written: an item whose upsert returned no id never has its
\* regulation upserted, is never patched to "stored", and ends counted in
\* failed with a "failed" patch attempted.
C15_Original ==
  MissingId =>
     /\ CallsOf("upsert_regulation") = {}
     /\ PatchesOf("stored") = {}
     /\ ItemEnded => CountedFailed

\* C15: an item whose upsert returned no id never has its regulation
\* upserted and is never patched to "stored"; it ends counted in failed with
\* a "failed" patch attempted, unless its download was HTML and the
\* skipped_paywall patch was applied, and then it ends as skipped_paywall.
C15_MissingIdFatal ==
  MissingId =>
     /\ CallsOf("upsert_regulation") = {}
     /\ PatchesOf("stored") = {}
     /\ (ItemEnded /\ ~SkippedAsPaywall) => CountedFailed
     /\ (ItemEnded /\ SkippedAsPaywall) =>
           /\ failed = before.failed
           /\ log.counts.skipped_paywall = before.counts.skipped_paywall + 1

\* every stage up to enrichment succeeded and the id check raised
C15_Witness ==
  /\ ItemEnded
  /\ MissingId
  /\ CallOk("summarize_report")
  /\ \E i \in PatchesOf("enriched") : calls[i].ok
  /\ exc = MissingIdError
  /\ CountedFailed
  /\ \A r \in ItemRows : r.status = "failed" /\ r.error = MissingIdError

\* ------------------------------------------------------ secondary failure
\* the item went through the except clause and its "failed" patch raised
SecondaryFailure ==
  /\ idx > 0
  /\ pc \in {"loop", "crashed"}
  /\ PatchesOf("failed") # {}
  /\ ~calls[Len(calls)].ok

\* the calls that raised before the except clause made its own
RaisedBefore == {i \in 1..(Len(calls) - 1) : ~calls[i].ok}

\* str(e) of the exception that took the item to the except clause: what
\* the last raising call raised (an HTML download raises first when the
\* skipped_paywall patch raises), or the missing-id error main raises itself
PrimaryError ==
  IF RaisedBefore # {}
  THEN calls[CHOOSE i \in RaisedBefore : \A j \in RaisedBefore : j <= i].raised
  ELSE MissingIdError

\* C16: when the "failed" patch of the except clause raises, the log entry
\* added for the item carries the primary error, failed has grown by
\* exactly one, and the next step of main is the loop's: the next item, or
\* the end of the loop.
C16_SecondarySwallowed ==
  /\ [](SecondaryFailure =>
          /\ pc = "loop"
          /\ failed = before.failed + 1
          /\ log.counts.failed = before.counts.failed + 1
          /\ Len(log.errors) = before.errors + 1
          /\ log.errors[Len(log.errors)] =
                [stage |-> "process", doc_url |-> item.doc_url, error |-> PrimaryError]
          /\ calls[Len(calls)].error = PrimaryError
          /\ success = before.success)
  /\ [][SecondaryFailure =>
          IF idx < Len(discovered_items)
          THEN pc' = "upsert_item" /\ idx' = idx + 1
          ELSE pc' = "finalize"]_vars

\* the extraction of the first of two items raised, then the "failed" patch
\* raised; the item's row stays "downloaded" and the loop is at its head
\* with the second item to take
C16_Witness ==
  /\ idx = 1
  /\ Len(discovered_items) = 2
  /\ SecondaryFailure
  /\ \E i \in CallsOf("extract_text_from_pdf") : ~calls[i].ok
  /\ \A r \in ItemRows : r.status = "downloaded"

\* ------------------------------------------------- non-backoff responses
\* event p of the current fetch is a GET answered with a status outside
\* cfg.backoff_statuses
AnsweredAt(p) ==
  /\ events[p].ev = "get"
  /\ events[p].info \notin BackoffStatuses \cup {0}

\* C17: a GET answered with a status outside the backoff set, 404 included,
\* on whichever attempt, ends fetch: that response is returned for that
\* attempt, and no sleep and no further wait or GET follows it.
C17_ReturnedAtOnce ==
  \A p \in 1..Len(events) :
     AnsweredAt(p) =>
        /\ p = Len(events)
        /\ hpc = "idle"
        /\ result.kind = "response"
        /\ result.status = events[p].info
        /\ result.attempt = Len(GetEvents) - 1
        /\ result.attempt <= cfg.max_retries

\* a transport exception on the first attempt, 404 on the second
C17_Witness ==
  /\ Len(GetEvents) = 2
  /\ GetEvents[1].info = 0
  /\ GetEvents[2].info = 404
  /\ result.kind = "response"
  /\ result.status = 404
  /\ hpc = "idle"

\* ------------------------------------------------------ status patch order
\* the status writes main attempted for the item, in order
StatusCalls ==
  SelectSeq(calls, LAMBDA c : c.op \in {"upsert_ingest_item", "set_ingest_item_status"})

StatusesSent == [i \in 1..Len(StatusCalls) |-> StatusCalls[i].status]

FullOrder == <<"discovered", "discovered", "downloaded", "extracted", "enriched", "stored">>

\* write i of n is in its place: the i-th of the full order, or the
\* skipped_paywall patch right after the second "discovered" and last but
\* for a "failed" patch, or the "failed" patch, which is the last
InOrder(sc, i) ==
  LET n == Len(sc) IN
  /\ \/ i <= Len(FullOrder) /\ sc[i].status = FullOrder[i]
     \/ /\ sc[i].status = "skipped_paywall"
        /\ i = 3
        /\ i = n \/ (i + 1 = n /\ sc[n].status = "failed")
     \/ sc[i].status = "failed" /\ i = n
  /\ (~sc[i].ok /\ i < n) => (i + 1 = n /\ sc[n].status = "failed")

\* the item went down the whole path: it is being, or has been, counted as
\* processed
FullPath ==
  \/ pc = "count"
  \/ ItemEnded /\ log.counts.processed = before.counts.processed + 1

\* C18: the statuses sent for an item are a prefix of discovered,
\* discovered, downloaded, extracted, enriched, stored, followed at most
\* by skipped_paywall (only after the second discovered) and failed; on the
\* full path all six are written, the second with the pdf_url and the
\* fourth with content_hash and raw_text_length, and the regulation upsert
\* comes after the "enriched" patch and before the "stored" patch.
C18_PatchOrder ==
  /\ LET sc == StatusCalls IN \A i \in 1..Len(sc) : InOrder(sc, i)
  /\ FullPath =>
        /\ StatusesSent = FullOrder
        /\ \A i \in 1..Len(calls) : calls[i].ok
        /\ \E e \in PatchesOf("enriched"), u \in CallsOf("upsert_regulation"),
              t \in PatchesOf("stored") : e < u /\ u < t
        /\ \A r \in ItemRows :
              /\ r.status = "stored"
              /\ r.pdf_url = PdfUrlOf(item.doc_url)
              /\ r.content_hash = content_hash
              /\ r.raw_text_length = text.len

\* the second item of a run has gone down the whole path
C18_Witness ==
  /\ idx = 2
  /\ ItemEnded
  /\ FullPath
  /\ StatusesSent = FullOrder
  /\ ItemRows # {}

\* --------------------------------------------------- status at run's end
\* main is past the item loop
RunOver == pc \in {"finalize", "done"}

DiscoveredDocs == {discovered_items[i].doc_url : i \in 1..Len(discovered_items)}

\* C19 as written: at the end of a run every discovered item has a record
\* and its status is terminal.
C19_Original ==
  RunOver =>
     \A d \in DiscoveredDocs :
        /\ RowsOf(ingest_items, d) # {}
        /\ \A r \in RowsOf(ingest_items, d) : r.status \in Terminal

\* C19: at the end of a run every discovered item whose "failed" patch did
\* not raise (at its last occurrence in the list) has no record or a record
\* with a terminal status; a record left in a transient status is at the
\* status last written for an item whose "failed" patch raised.
C19_SettledItemsTerminal ==
  RunOver =>
     \A d \in DiscoveredDocs :
        \A r \in RowsOf(ingest_items, d) :
           /\ d \notin unsettled => r.status \in Terminal
           /\ r.status \in Terminal \cup Transient

\* a run of two items is over: one is stored, the other failed in a stage
\* and was patched to "failed"
C19_Witness ==
  /\ pc = "done"
  /\ Len(discovered_items) = 2
  /\ unsettled = {}
  /\ success = 1
  /\ failed = 1
  /\ \E r \in RowsOf(ingest_items, discovered_items[1].doc_url) : r.status = "failed"
  /\ \E r \in RowsOf(ingest_items, discovered_items[2].doc_url) : r.status = "stored"

\* ------------------------------------------------------------ error text
\* the error field of every ingest item record is within the limit
ItemErrorsBounded == \A r \in ingest_items : r.error.len <= ErrLimit

\* C20: the error text of every ingest item record and of every entry of
\* the run log's errors is at most 4000 characters long, however long the
\* error message was.
C20_ErrorTextBounded ==
  /\ ItemErrorsBounded
  /\ \A i \in 1..Len(log.errors) : log.errors[i].error.len <= ErrLimit

\* ------------------------------------------------------- backoff sleeps
\* the backoff sleeps of the current fetch, in order
SleepEvents == SelectSeq(events, LAMBDA e : e.ev = "sleep")

\* the current fetch has returned or raised
FetchOver == hpc = "idle" /\ result.kind # "none"

\* C21: a fetch that made n GETs slept n-1 times, each sleep followed by
\* the wait of another attempt; a fetch that raises does so right after its
\* last GET, having slept max_retries times.
C21_SleepsBetweenAttempts ==
  FetchOver =>
     /\ Len(SleepEvents) = Len(GetEvents) - 1
     /\ \A p \in 1..Len(events) :
           events[p].ev = "sleep" => (p < Len(events) /\ events[p + 1].ev = "wait")
     /\ result.kind = "raised" =>
           /\ Len(SleepEvents) = cfg.max_retries
           /\ events[Len(events)].ev = "get"

\* a fetch that returned a response slept once less than it made GETs
SleepsWhenAnswered ==
  (FetchOver /\ result.kind = "response") => Len(SleepEvents) = Len(GetEvents) - 1

\* ----------------------------------------------------------- run counters
\* the sum of the outcome counters of log["counts"] (main keeps no
\* skipped_unchanged counter: it adds nothing)
OutcomeSum(c) == c.processed + c.skipped_paywall + c.failed

\* C22: every item the loop has finished has added one to exactly one
\* outcome counter, so at the end of a run discovered equals the sum of the
\* outcome counters; the local counters equal processed and failed, and
\* they are the success_count and fail_count written to the run record.
C22_CountersPartition ==
  /\ ItemEnded =>
        /\ OutcomeSum(log.counts) = OutcomeSum(before.counts) + 1
        /\ OutcomeSum(log.counts) = idx
  /\ RunOver =>
        /\ log.counts.discovered = Len(discovered_items)
        /\ OutcomeSum(log.counts) = log.counts.discovered
  /\ pc \notin {"idle", "crashed"} =>
        /\ success = log.counts.processed
        /\ failed = log.counts.failed
  /\ pc = "done" =>
        /\ RunRows(run_id) # {}
        /\ \A r \in RunRows(run_id) :
              /\ r.finished
              /\ r.success_count = log.counts.processed
              /\ r.fail_count = log.counts.failed
              /\ r.meta = log.counts

\* a run of two items has ended: one skipped as paywall, one failed
C22_Witness ==
  /\ pc = "done"
  /\ log.counts.discovered = 2
  /\ log.counts.skipped_paywall = 1
  /\ log.counts.failed = 1
  /\ \E r \in RunRows(run_id) : r.fail_count = 1 /\ r.success_count = 0

\* ------------------------------------------------- stored and regulation
\* C23: in every state of the store, over all runs, an ingest item with
\* status "stored" has a regulation with its doc_url whose content_hash is
\* the item's content_hash.
C23_StoredHasRegulation ==
  \A r \in ingest_items :
     r.status = "stored" =>
        \E g \in regulations :
           /\ g.doc_url = r.doc_url
           /\ g.content_hash = r.content_hash
           /\ g.content_hash # NoHash

\* after two runs: one document stored by the first run and left alone by
\* the second, the other stored by the second
C23_Witness ==
  /\ pc = "done"
  /\ run_no = 2
  /\ run_id = 2
  /\ \E r \in ingest_items : r.status = "stored" /\ r.run_id = 1
  /\ \E r \in ingest_items : r.status = "stored" /\ r.run_id = 2
  /\ Cardinality(regulations) = 2

\* ------------------------------------------------------------ stale error
\* C24: an item that an earlier run left with an error text (as failed or
\* skipped_paywall) and that a later run brings to "stored" no longer holds
\* that text: a pass that ends in "stored" writes no error itself, so a
\* stored record holds no error text.  (Under Spec the doc_urls of a run
\* are distinct, so an error on a stored record is an earlier run's.)
C24_ErrorOverwritten ==
  \A r \in ingest_items : r.status = "stored" => ~Truthy(r.error)

====
